---- MODULE Spec2Model ----
(***************************************************************************)
(* Setting controllers of RIDE (robotide/controller/settingcontrollers.py). *)
(* One controller wraps one setting record; the owner (parent) receives     *)
(* mark_dirty and notify_* calls.  A behaviour follows ONE controller,      *)
(* whose class is fixed at construction (kind).                             *)
(*                                                                         *)
(* Strings are sequences of one-character strings.  Python's None is the    *)
(* empty option <<>>, a present value x is <<x>>.                           *)
(***************************************************************************)
EXTENDS Integers, Sequences, FiniteSets, TLC

VARIABLES
    kind,       \* class of the controller under observation
    data,       \* the wrapped record (self._data): its fields and its comment
    chain,      \* force-tag records of the owning hierarchy, root first
    defaults,   \* the owner's default-tags record (value or None)
    resolved,   \* ResourceImportController._resolved_import
    cached,     \* ResourceImportController._imported_resource_controller
    call,       \* the last call: operation, arguments, record before it
    log         \* calls made on the record/owner during the last call, in order

vars == <<kind, data, chain, defaults, resolved, cached, call, log>>

----------------------------------------------------------------------------
\* Bounds of the model.

\* longest value string handed to set_value
MaxLen == 2
\* longest tag list add() may build
MaxTags == 2
\* longest value string handed to set_value in TagsSpec
MaxTagLen == 1
\* deepest chain of ancestors above the entity
MaxDepth == 2

----------------------------------------------------------------------------
\* Options and strings.

None == <<>>
Some(x) == <<x>>
IsNone(o) == o = <<>>
Val(o) == o[1]

Chars == {"a", "|", " "}

StringsUpTo(n) == UNION {[1..k -> Chars] : k \in 0..n}

\* value strings with a backslash: an escaped pipe, a lone backslash
EscapedValues == {<<"\\", "|">>, <<"\\">>}

\* the value strings handed to set_value
Values == StringsUpTo(MaxLen) \cup EscapedValues

\* the keyword names handed to replace_keyword
KeywordNames == {<<"a">>, <<"k">>}

\* str.strip(): drop the leading and the trailing blanks
RECURSIVE lstrip(_)
lstrip(s) ==
    IF s # <<>> /\ Head(s) = " " THEN lstrip(Tail(s)) ELSE s

RECURSIVE rstrip(_)
rstrip(s) ==
    IF s # <<>> /\ s[Len(s)] = " " THEN rstrip(SubSeq(s, 1, Len(s) - 1)) ELSE s

strip(s) == rstrip(lstrip(s))

\* The tokens of s between unescaped pipes; a backslash-pipe pair is a
\* literal pipe of the token it stands in.  cur is the token being read.
RECURSIVE split_unescaped(_, _, _)
split_unescaped(s, i, cur) ==
    IF i > Len(s) THEN <<cur>>
    ELSE IF s[i] = "\\" /\ i < Len(s) /\ s[i + 1] = "|"
         THEN split_unescaped(s, i + 2, Append(cur, "|"))
    ELSE IF s[i] = "|"
         THEN <<cur>> \o split_unescaped(s, i + 1, <<>>)
    ELSE split_unescaped(s, i + 1, Append(cur, s[i]))

\* utils.split_value: the separator rule; an empty value has no tokens
split_value(value) ==
    IF value = <<>> THEN <<>>
    ELSE LET raw == split_unescaped(value, 1, <<>>)
         IN  [i \in 1..Len(raw) |-> strip(raw[i])]

\* _SettingController._split_from_separators
split_from_separators(value) == split_value(value)

\* str.split('|', 1): at most two parts, cut at the first pipe
RECURSIVE first_pipe(_, _)
first_pipe(s, i) ==
    IF i > Len(s) THEN 0
    ELSE IF s[i] = "|" THEN i
    ELSE first_pipe(s, i + 1)

split_once(s) ==
    LET p == first_pipe(s, 1)
    IN  IF p = 0 THEN <<s>>
        ELSE <<SubSeq(s, 1, p - 1), SubSeq(s, p + 1, Len(s))>>

----------------------------------------------------------------------------
\* The controller classes.

ChangeDetecting == {"FixtureController", "TagsController", "ForceTagsController",
                    "DefaultTagsController", "TimeoutController",
                    "TemplateController", "ArgumentsController",
                    "ReturnValueController", "DocumentationController"}

TagKinds == {"TagsController", "ForceTagsController", "DefaultTagsController"}

ListKinds == {"ArgumentsController", "ReturnValueController"}

ImportKinds == {"ResourceImportController", "LibraryImportController"}

\* the classes whose set_value takes a name and a value
NamedKinds == {"MetadataController", "VariableController"}

ImportTypes == {"Resource", "Library", "Variables"}

\* ImportController(parent, import_): the factory of import controllers
ImportController(type) ==
    IF type = "Resource" THEN "ResourceImportController"
    ELSE "LibraryImportController"

\* ResourceImportController.is_resource / LibraryImportController.is_resource
is_resource(k) == k = "ResourceImportController"

----------------------------------------------------------------------------
\* The record's comment: None, or a Comment object holding a list of texts.

CommentTexts == {<<>>, <<"a">>}

\* Comment(comment_data) of the record library
Comment(c) ==
    IF IsNone(c) \/ Val(c) = <<>> THEN Some(<<>>) ELSE Some(<<Val(c)>>)

\* the comment of a freshly constructed record: Comment(None)
NoComment == Comment(None)

----------------------------------------------------------------------------
\* The record as constructed (and as reset() leaves its value fields).

initial_value(k) ==
    CASE k = "FixtureController"       -> [name |-> None, args |-> <<>>]
      [] k \in TagKinds                -> [value |-> None]
      [] k = "TimeoutController"       -> [value |-> None, message |-> <<>>]
      [] k = "TemplateController"      -> [value |-> None]
      [] k \in ListKinds               -> [value |-> <<>>]
      [] k = "DocumentationController" -> [value |-> <<>>]

\* record fields and comment joined into one record
WithComment(fields, c) ==
    [f \in (DOMAIN fields) \cup {"comment"} |->
        IF f = "comment" THEN c ELSE fields[f]]

\* Setting.reset(): the record is constructed anew
reset(k, d) == WithComment(initial_value(k), NoComment)

\* Setting.reset() of a record library that leaves the comment in place
reset_keeping_comment(k, d) == WithComment(initial_value(k), d.comment)

\* the records self._data.reset() can leave
reset_outcomes(k, d) == {reset(k, d), reset_keeping_comment(k, d)}

----------------------------------------------------------------------------
\* Calls seen by the owner and the record, as entries of log.

\* one call, without and with an argument
E(ev) == [ev |-> ev, arg |-> <<>>]
EA(ev, a) == [ev |-> ev, arg |-> <<a>>]

\* ControllerWithParent.mark_dirty: the owner's mark_dirty
mark_dirty == <<E("mark_dirty")>>

----------------------------------------------------------------------------
\* _parse, _changed and _set of each class.

\* FixtureController._parse
Fixture_parse(value) ==
    LET v == split_from_separators(value)
    IN  IF v # <<>> THEN <<v[1], Tail(v)>> ELSE << <<>>, <<>> >>

\* FixtureController._changed
Fixture_changed(d, value) ==
    LET p == Fixture_parse(value)
    IN  d.name # Some(p[1]) \/ d.args # p[2]

\* FixtureController._set
Fixture_set(d, value) ==
    LET p == Fixture_parse(value)
    IN  [d EXCEPT !.name = Some(p[1]), !.args = p[2]]

\* TagsController._changed
Tags_changed(d, value) == d.value # Some(split_from_separators(value))

\* TagsController._set
Tags_set(d, value) == [d EXCEPT !.value = Some(split_from_separators(value))]

\* a _parse that splits the way the list settings do
Timeout_parse_as_list(value) ==
    LET parts == split_value(value)
    IN  <<IF Len(parts) >= 1 THEN parts[1] ELSE <<>>,
          IF Len(parts) >= 2 THEN parts[2] ELSE <<>> >>

\* TimeoutController._parse
Timeout_parse(value) ==
    LET parts == split_once(value)
        val == strip(parts[1])
        msg == IF Len(parts) = 2 THEN strip(parts[2]) ELSE <<>>
    IN  <<val, msg>>

\* a _changed that forgets the message
Timeout_changed_value_only(d, value) ==
    d.value # Some(Timeout_parse(value)[1])

\* TimeoutController._changed
Timeout_changed(d, value) ==
    LET p == Timeout_parse(value)
    IN  d.value # Some(p[1]) \/ d.message # p[2]

\* TimeoutController._set
Timeout_set(d, value) ==
    LET p == Timeout_parse(value)
    IN  [d EXCEPT !.value = Some(p[1]), !.message = p[2]]

\* _SettingController._changed (Template: the record's value may be None)
Base_changed(d, value) == Some(value) # d.value

\* _SettingController._set
Base_set(d, value) == [d EXCEPT !.value = Some(value)]

\* _SettingController._changed (Documentation: the value is a string)
Documentation_changed(d, value) == value # d.value

\* _SettingController._set (Documentation)
Documentation_set(d, value) == [d EXCEPT !.value = value]

\* a _changed that compares the tokens as typed, blanks included
Arguments_changed_untrimmed(d, value) ==
    d.value # (IF value = <<>> THEN <<>> ELSE split_unescaped(value, 1, <<>>))

\* ArgumentsController._changed
Arguments_changed(d, value) == d.value # split_from_separators(value)

\* ArgumentsController._set: the record it leaves
Arguments_set(d, value) == [d EXCEPT !.value = split_from_separators(value)]

\* ReturnValueController._changed
ReturnValue_changed(d, value) == d.value # split_from_separators(value)

\* ReturnValueController._set
ReturnValue_set(d, value) == [d EXCEPT !.value = split_from_separators(value)]

\* self._changed(value), dispatched on the class
changed(k, d, value) ==
    CASE k = "FixtureController"       -> Fixture_changed(d, value)
      [] k \in TagKinds                -> Tags_changed(d, value)
      [] k = "TimeoutController"       -> Timeout_changed(d, value)
      [] k = "TemplateController"      -> Base_changed(d, value)
      [] k = "DocumentationController" -> Documentation_changed(d, value)
      [] k = "ArgumentsController"     -> Arguments_changed(d, value)
      [] k = "ReturnValueController"   -> ReturnValue_changed(d, value)

\* self._set(value), dispatched on the class: the record it leaves
set_record(k, d, value) ==
    CASE k = "FixtureController"       -> Fixture_set(d, value)
      [] k \in TagKinds                -> Tags_set(d, value)
      [] k = "TimeoutController"       -> Timeout_set(d, value)
      [] k = "TemplateController"      -> Base_set(d, value)
      [] k = "DocumentationController" -> Documentation_set(d, value)
      [] k = "ArgumentsController"     -> Arguments_set(d, value)
      [] k = "ReturnValueController"   -> ReturnValue_set(d, value)

\* TemplateController._set: base _set, then the owner's notify_steps_changed
Template_set_calls == <<E("_set"), E("notify_steps_changed")>>

\* an Arguments _set that does not notify
Arguments_set_calls_silent == <<E("_set")>>

\* ArgumentsController._set: the write, then the owner's notify_settings_changed
Arguments_set_calls == <<E("_set"), E("notify_settings_changed")>>

\* self._set(value), dispatched on the class: the calls it makes, in order
set_calls(k) ==
    CASE k = "TemplateController"  -> Template_set_calls
      [] k = "ArgumentsController" -> Arguments_set_calls
      [] OTHER                     -> <<E("_set")>>

----------------------------------------------------------------------------
\* Tags and their iteration.

\* Tag(name, index=None, controller=None) and its subclasses.  ctrl is the
\* controller the tag refers back to: 0 the controller under observation,
\* n >= 1 the force-tags controller of level n of the hierarchy (1 the
\* root), -1 the owner's default-tags controller.
Tag(name, index, ctrl) ==
    [cls |-> "Tag", name |-> name, index |-> index, ctrl |-> ctrl]

ForcedTag(name, index, ctrl) ==
    [cls |-> "ForcedTag", name |-> name, index |-> index, ctrl |-> ctrl]

DefaultTag(name, index, ctrl) ==
    [cls |-> "DefaultTag", name |-> name, index |-> index, ctrl |-> ctrl]

\* ForceTagsController._gather_from_data; enumerate() counts from 0
gather_from_data(tags, parent) ==
    IF IsNone(tags) THEN <<>>
    ELSE [i \in 1..Len(Val(tags)) |-> ForcedTag(Val(tags)[i], Some(i - 1), parent)]

\* a gather that appends each level to the result instead of prepending it
RECURSIVE recursive_gather_from_appending(_, _, _)
recursive_gather_from_appending(levels, obj, result) ==
    IF obj = 0 THEN result
    ELSE recursive_gather_from_appending(levels, obj - 1,
             result \o gather_from_data(levels[obj], obj))

\* ForceTagsController._recursive_gather_from: obj is a level of levels,
\* obj.parent the level above it, None (0) above the root
RECURSIVE recursive_gather_from(_, _, _)
recursive_gather_from(levels, obj, result) ==
    IF obj = 0 THEN result
    ELSE recursive_gather_from(levels, obj - 1,
                               gather_from_data(levels[obj], obj) \o result)

\* ForceTagsController.__iter__ of the controller whose hierarchy is levels
ForceTags_iter(levels) == recursive_gather_from(levels, Len(levels), <<>>)

\* DefaultTagsController.__iter__
DefaultTags_iter(tags, ctrl) ==
    IF IsNone(tags) THEN <<>>
    ELSE [i \in 1..Len(Val(tags)) |-> DefaultTag(Val(tags)[i], Some(i - 1), ctrl)]

\* an __iter__ that takes an empty list for an unset value
Tags_iter_falsy(tags, forced, default_tags) ==
    IF IsNone(tags) \/ Len(Val(tags)) = 0 THEN forced \o default_tags
    ELSE forced \o [i \in 1..Len(Val(tags)) |-> Tag(Val(tags)[i], Some(i - 1), 0)]

\* TagsController.__iter__: forced is the iteration of the owner's
\* force_tags, default_tags that of the owner's default_tags
Tags_iter(tags, forced, default_tags) ==
    IF IsNone(tags) THEN forced \o default_tags
    ELSE IF Len(Val(tags)) = 0 THEN forced \o <<Tag(<<>>, None, 0)>>
    ELSE forced \o [i \in 1..Len(Val(tags)) |-> Tag(Val(tags)[i], Some(i - 1), 0)]

\* iter(self) of a tag controller over the record d in the hierarchy under
\* observation.  The hierarchy of a ForceTagsController is its ancestors
\* followed by its own record.
iter_of(d) ==
    CASE kind = "TagsController" ->
             Tags_iter(d.value, ForceTags_iter(chain),
                       DefaultTags_iter(defaults, -1))
      [] kind = "DefaultTagsController" -> DefaultTags_iter(d.value, 0)
      [] kind = "ForceTagsController" -> ForceTags_iter(Append(chain, d.value))

iter == iter_of(data)

\* an any() that takes a tag without a name for false
Tags_is_set_named(it) == \E i \in 1..Len(it) : it[i].name # <<>>

\* TagsController.is_set: any(self); a tag object is true whatever its name
Tags_is_set(it) == \E i \in 1..Len(it) : TRUE

F1 == <<"f">>
F2 == <<"g">>

LevelValues == {None, Some(<<F1>>), Some(<<F2, F1>>)}

DefaultValues == {None, Some(<<F2>>)}

AddNames == {<<"a">>, <<"|">>}

Chains(n) == UNION {[1..k -> LevelValues] : k \in 0..n}

----------------------------------------------------------------------------
\* Import names.

RTxt == <<"r", ".", "t", "x", "t">>
RUpper == <<"r", ".", "T", "X", "T">>
ImportNames == {<<"r">>, RTxt, RUpper}
OldNames == {<<>>, <<"r">>, <<"t", "x", "t">>, RTxt}
NewNames == {<<"q">>, <<"t", "s", "v">>}
Formats == {<<"t", "x", "t">>, <<"t", "s", "v">>}
ImportArgs == {None, Some(<<"a", "|">>)}
Aliases == {<<>>, <<"a">>}
Controllers == {None, Some("rc1"), Some("rc2")}

\* str.endswith
endswith(s, suffix) ==
    /\ Len(suffix) <= Len(s)
    /\ SubSeq(s, Len(s) - Len(suffix) + 1, Len(s)) = suffix

\* s[:-n] of Python: -0 is 0, so s[:-0] is the empty string
slice_to_minus(s, n) ==
    IF n = 0 THEN <<>> ELSE SubSeq(s, 1, Len(s) - n)

\* position of the last '.' of s at or before i, 0 when there is none
RECURSIVE last_dot(_, _)
last_dot(s, i) ==
    IF i = 0 THEN 0
    ELSE IF s[i] = "." THEN i
    ELSE last_dot(s, i - 1)

\* str.lower on the letters the model uses
lower(s) ==
    [i \in 1..Len(s) |->
        CASE s[i] = "T" -> "t" [] s[i] = "X" -> "x" [] OTHER -> s[i]]

\* ResourceImportController._has_format
has_format(name) ==
    LET p == last_dot(name, Len(name))
    IN  /\ p # 0
        /\ lower(SubSeq(name, p + 1, Len(name)))
               \in {<<"h", "t", "m", "l">>, <<"t", "x", "t">>, <<"t", "s", "v">>}

\* utils.replace_extension: the part before the last '.', '.', the format
replace_extension(name, format) ==
    LET p == last_dot(name, Len(name))
        base == IF p = 0 THEN name ELSE SubSeq(name, 1, p - 1)
    IN  base \o <<".">> \o lower(format)

----------------------------------------------------------------------------
\* Construction.

SettingInit ==
    /\ kind \in ChangeDetecting \ TagKinds
    /\ data = WithComment(initial_value(kind), NoComment)
    /\ chain = <<>>
    /\ defaults = None
    /\ resolved = FALSE
    /\ cached = None

\* a tag controller whose owner has neither forced nor default tags
TagsInit ==
    /\ kind \in TagKinds
    /\ data = WithComment(initial_value(kind), NoComment)
    /\ chain = <<>>
    /\ defaults = None
    /\ resolved = FALSE
    /\ cached = None

\* a tag controller inside a hierarchy: the force tags of the levels above
\* it and, for a TagsController, the owner's default tags
HierarchyInit ==
    /\ kind \in TagKinds
    /\ data = WithComment(initial_value(kind), NoComment)
    /\ chain \in IF kind = "DefaultTagsController" THEN {<<>>}
                 ELSE Chains(MaxDepth)
    /\ defaults \in IF kind = "TagsController" THEN DefaultValues ELSE {None}
    /\ resolved = FALSE
    /\ cached = None

ImportInit ==
    /\ \E type \in ImportTypes, name \in ImportNames :
          /\ kind = ImportController(type)
          /\ data = [type |-> type, name |-> name, args |-> <<>>,
                     alias |-> <<>>, comment |-> NoComment]
    /\ chain = <<>>
    /\ defaults = None
    /\ resolved = FALSE
    /\ cached = None

\* a metadata or variable controller over a record read from a file
NamedInit ==
    /\ kind \in NamedKinds
    /\ data = [name |-> <<"a">>,
               value |-> IF kind = "VariableController" THEN << <<"a">> >>
                         ELSE <<"a">>,
               comment |-> NoComment]
    /\ chain = <<>>
    /\ defaults = None
    /\ resolved = FALSE
    /\ cached = None

Init ==
    /\ SettingInit \/ TagsInit \/ ImportInit \/ NamedInit
    /\ call = [op |-> "init", arg |-> <<>>, pre |-> data]
    /\ log = <<>>

----------------------------------------------------------------------------
\* The value of a setting as text.

\* token 0 of as_list(): the name of the setting
setting_name == <<"*">>

\* bool(comment): None and the empty Comment are false
comment_set(c) == ~IsNone(c) /\ Val(c) # <<>>

\* Comment.as_list(): the comment cells, the first prefixed with '# '
Comment_as_list(c) ==
    IF comment_set(c) THEN << <<"#", " ">> \o Val(c)[1] >> ELSE <<>>

\* the value cells of the record, without name and comment
data_as_list(k, d) ==
    CASE k = "FixtureController" ->
             IF (~IsNone(d.name) /\ Val(d.name) # <<>>) \/ d.args # <<>>
                THEN <<IF IsNone(d.name) THEN <<>> ELSE Val(d.name)>> \o d.args
                ELSE <<>>
      [] k \in TagKinds -> IF IsNone(d.value) THEN <<>> ELSE Val(d.value)
      [] k \in ListKinds -> d.value
      [] k = "TimeoutController" ->
             IF (~IsNone(d.value) /\ Val(d.value) # <<>>) \/ d.message # <<>>
                THEN <<IF IsNone(d.value) THEN <<>> ELSE Val(d.value), d.message>>
                ELSE <<>>
      [] k = "TemplateController" ->
             IF ~IsNone(d.value) /\ Val(d.value) # <<>> THEN <<Val(d.value)>>
             ELSE <<>>

\* _SettingController.as_list: the record's as_list()
as_list(k, d) ==
    <<setting_name>> \o data_as_list(k, d) \o Comment_as_list(d.comment)

\* v.replace('|', '\\|')
RECURSIVE replace_pipe(_)
replace_pipe(v) ==
    IF v = <<>> THEN <<>>
    ELSE (IF Head(v) = "|" THEN <<"\\", "|">> ELSE <<Head(v)>>)
         \o replace_pipe(Tail(v))

\* ' | '.join(tokens)
RECURSIVE join(_)
join(tokens) ==
    IF tokens = <<>> THEN <<>>
    ELSE IF Len(tokens) = 1 THEN tokens[1]
    ELSE tokens[1] \o <<" ", "|", " ">> \o join(Tail(tokens))

\* _SettingController._value
escaped_value(k, d) ==
    LET cells == Tail(as_list(k, d))
    IN  [i \in 1..Len(cells) |-> replace_pipe(cells[i])]

\* _SettingController.value
value_of(k, d) ==
    LET v == escaped_value(k, d)
    IN  join(IF comment_set(d.comment) THEN SubSeq(v, 1, Len(v) - 1) ELSE v)

\* _SettingController.display_value
Base_display_value(k, d) == join(escaped_value(k, d))

\* TagsController.display_value
Tags_display_value(it) == join([i \in 1..Len(it) |-> replace_pipe(it[i].name)])

\* DocumentationController.value, and value of the other classes
value_property(k, d) ==
    IF k = "DocumentationController" THEN d.value ELSE value_of(k, d)

\* is_set() of the record
Record_is_set(k, d) ==
    CASE k = "FixtureController" -> ~IsNone(d.name) /\ Val(d.name) # <<>>
      [] k \in TagKinds \cup {"TemplateController"} -> ~IsNone(d.value)
      [] k = "TimeoutController" -> ~IsNone(d.value) /\ Val(d.value) # <<>>
      [] OTHER -> d.value # <<>>

\* display_value of the controller under observation
display_value ==
    IF kind \in TagKinds THEN Tags_display_value(iter)
    ELSE Base_display_value(kind, data)

----------------------------------------------------------------------------
\* The documentation as stored and as edited.

NL == "\n"
CR == "\r"

MaxDocLen == 5
MaxEditLen == 2

\* stored documentation: backslashes, the letters of the escapes, a letter
DocChars == {"\\", "n", "r", "a"}

\* edited text: the newline characters, a hash, a blank, a letter
EditChars == {NL, CR, "#", " ", "a"}

DocValues == UNION {[1..n -> DocChars] : n \in 0..MaxDocLen}

EditTexts == UNION {[1..n -> EditChars] : n \in 0..MaxEditLen}

\* n backslashes
Backslashes(n) == [i \in 1..n |-> "\\"]

\* the number of backslashes s begins with
RECURSIVE leading_backslashes(_)
leading_backslashes(s) ==
    IF s # <<>> /\ Head(s) = "\\" THEN 1 + leading_backslashes(Tail(s)) ELSE 0

\* s.startswith(prefix)
startswith(s, prefix) ==
    Len(prefix) <= Len(s) /\ SubSeq(s, 1, Len(prefix)) = prefix

\* DocumentationController.newline_regexps: each is one or more
\* backslashes (group 1) followed by these characters
newline_regexps == << <<"r", "\\", "n">>, <<"n">>, <<"r">> >>

\* a replacer that takes every match for a newline
newline_replacer_any(blashes, group) == Backslashes(blashes - 1) \o <<NL>>

\* DocumentationController._newline_replacer: blashes is len(match.group(1)),
\* group is match.group()
newline_replacer(blashes, group) ==
    IF blashes % 2 = 1 THEN Backslashes(blashes - 1) \o <<NL>> ELSE group

\* regexp.sub(self._newline_replacer, item) for the regexp of one or more
\* backslashes followed by follow: leftmost matches, the run of backslashes
\* taken whole, the search resumed after each match
RECURSIVE regexp_sub(_, _)
regexp_sub(follow, item) ==
    IF item = <<>> THEN <<>>
    ELSE IF Head(item) # "\\" THEN <<Head(item)>> \o regexp_sub(follow, Tail(item))
    ELSE LET blashes == leading_backslashes(item)
             rest == SubSeq(item, blashes + 1, Len(item))
         IN  IF startswith(rest, follow)
                THEN newline_replacer(blashes, Backslashes(blashes) \o follow)
                     \o regexp_sub(follow,
                                   SubSeq(rest, Len(follow) + 1, Len(rest)))
                ELSE Backslashes(blashes) \o regexp_sub(follow, rest)

\* DocumentationController._unescape_newlines_and_handle_escaped_backslashes
unescape_newlines_and_handle_escaped_backslashes(item) ==
    regexp_sub(newline_regexps[3],
               regexp_sub(newline_regexps[2],
                          regexp_sub(newline_regexps[1], item)))

\* item.replace(old, new), old not empty
RECURSIVE replace(_, _, _)
replace(item, old, new) ==
    IF Len(item) < Len(old) THEN item
    ELSE IF startswith(item, old)
            THEN new \o replace(SubSeq(item, Len(old) + 1, Len(item)), old, new)
    ELSE <<Head(item)>> \o replace(Tail(item), old, new)

\* the escape written for a newline
escaped_newline == <<"\\", "n">>

\* a replacement of the newlines that takes the line feed first
escape_newlines_lf_first(item) ==
    replace(replace(replace(item, <<NL>>, escaped_newline),
                    <<CR, NL>>, escaped_newline),
            <<CR>>, escaped_newline)

\* DocumentationController._escape_newlines_and_leading_hash: the loop over
\* the newlines
escape_newlines(item) ==
    replace(replace(replace(item, <<CR, NL>>, escaped_newline),
                    <<NL>>, escaped_newline),
            <<CR>>, escaped_newline)

\* DocumentationController._escape_newlines_and_leading_hash.  No newline
\* is left when strip() is called, so it strips blanks.
escape_newlines_and_leading_hash(item) ==
    LET escaped == escape_newlines(item)
    IN  IF startswith(strip(escaped), <<"#">>) THEN <<"\\">> \o escaped
        ELSE escaped

----------------------------------------------------------------------------
\* Operations of the setting controllers.

\* _SettingController.set_value
set_value(value) ==
    /\ kind \in ChangeDetecting
    /\ IF changed(kind, data, value)
          THEN /\ data' = set_record(kind, data, value)
               /\ log' = set_calls(kind) \o mark_dirty
          ELSE /\ data' = data
               /\ log' = <<>>
    /\ call' = [op |-> "set_value", arg |-> <<value>>, pre |-> data]
    /\ UNCHANGED <<kind, chain, defaults, resolved, cached>>

\* DocumentationController._get_editable_value; arg records what it returns
get_editable_value ==
    /\ kind = "DocumentationController"
    /\ call' = [op |-> "get_editable_value",
                arg |-> <<unescape_newlines_and_handle_escaped_backslashes(
                              data.value)>>,
                pre |-> data]
    /\ log' = <<>>
    /\ UNCHANGED <<kind, data, chain, defaults, resolved, cached>>

\* DocumentationController._set_editable_value
set_editable_value(text) ==
    /\ kind = "DocumentationController"
    /\ LET value == escape_newlines_and_leading_hash(text)
       IN  IF changed(kind, data, value)
              THEN /\ data' = set_record(kind, data, value)
                   /\ log' = set_calls(kind) \o mark_dirty
              ELSE /\ data' = data
                   /\ log' = <<>>
    /\ call' = [op |-> "set_editable_value", arg |-> <<text>>, pre |-> data]
    /\ UNCHANGED <<kind, chain, defaults, resolved, cached>>

\* a set_comment that stores the comment and tells the owner nothing
set_comment_calls_silent == <<E("comment")>>

\* _SettingController.set_comment: the calls it makes when it stores
set_comment_calls == <<E("comment")>> \o mark_dirty

\* _SettingController.set_comment: a raw string or None never equals a
\* Comment object, None equals None
set_comment(comment) ==
    /\ kind \in ChangeDetecting \cup ImportKinds \cup NamedKinds
    /\ IF ~(IsNone(comment) /\ IsNone(data.comment))
          THEN /\ data' = [data EXCEPT !.comment = Comment(comment)]
               /\ log' = set_comment_calls
          ELSE /\ data' = data
               /\ log' = <<>>
    /\ call' = [op |-> "set_comment", arg |-> <<comment>>, pre |-> data]
    /\ UNCHANGED <<kind, chain, defaults, resolved, cached>>

\* _SettingController.clear
Base_clear_calls == <<E("reset"), E("comment")>> \o mark_dirty

\* TemplateController.clear
Template_clear_calls == Base_clear_calls \o <<E("notify_steps_changed")>>

\* ArgumentsController.clear
Arguments_clear_calls == Base_clear_calls \o <<E("notify_settings_changed")>>

\* self.clear(), dispatched on the class: the calls it makes, in order
clear_calls(k) ==
    CASE k = "TemplateController"  -> Template_clear_calls
      [] k = "ArgumentsController" -> Arguments_clear_calls
      [] OTHER                     -> Base_clear_calls

\* a clear() that trusts reset() to remove the comment
clear_record_by_reset(r) == r

\* _SettingController.clear: the record it leaves, r being what reset() left
clear_record(r) == [r EXCEPT !.comment = None]

\* _SettingController.clear and its overrides
clear ==
    /\ kind \in ChangeDetecting
    /\ \E r \in reset_outcomes(kind, data) : data' = clear_record(r)
    /\ log' = clear_calls(kind)
    /\ call' = [op |-> "clear", arg |-> <<>>, pre |-> data]
    /\ UNCHANGED <<kind, chain, defaults, resolved, cached>>

\* the comments and the value texts of the controller copied from
OtherComments == {None, Comment(Some(<<"a">>))}
OtherTexts == {None, Some(<<"a", "|">>)}

\* the record of the controller copied from: as constructed, or as a
\* set_value left it
Other(k, c, v) ==
    IF IsNone(v) THEN WithComment(initial_value(k), c)
    ELSE set_record(k, WithComment(initial_value(k), c), Val(v))

\* _SettingController.set_from and TagsController.set_from: the controller
\* copied from has the comment c and the record Other(kind, c, v), same
\* tells that its Comment is the very object the record already holds
\* (left there by an earlier set_from)
set_from(c, v, same) ==
    /\ kind \in ChangeDetecting
    /\ same => (~IsNone(c) /\ c = data.comment)
    /\ LET other == Other(kind, c, v)
           is_set == IF kind \in TagKinds
                        THEN Tags_is_set(iter_of(other)) /\ ~IsNone(other.value)
                        ELSE Record_is_set(kind, other)
           writes == is_set /\ changed(kind, data, value_property(kind, other))
           d1 == IF writes
                    THEN set_record(kind, data, value_property(kind, other))
                    ELSE data
           differs == IF IsNone(other.comment) THEN ~IsNone(d1.comment)
                      ELSE ~same
           comment == IF IsNone(other.comment) THEN Comment(None)
                      ELSE other.comment
       IN  /\ data' = IF differs THEN [d1 EXCEPT !.comment = comment] ELSE d1
           /\ log' = (IF writes THEN set_calls(kind) \o mark_dirty ELSE <<>>)
                     \o (IF differs THEN set_comment_calls ELSE <<>>)
    /\ call' = [op |-> "set_from", arg |-> <<Other(kind, c, v), same>>,
                pre |-> data]
    /\ UNCHANGED <<kind, chain, defaults, resolved, cached>>

\* the names and values handed to set_value(name, value)
NamedNames == {<<"a">>, <<"k">>}
MetadataValues == {<<>>, <<"a">>}
VariableValues ==
    {[basestring |-> TRUE, value |-> <<"a">>],
     [basestring |-> FALSE, value |-> <<>>],
     [basestring |-> FALSE, value |-> << <<"a">>, <<"k">> >>]}

\* a set_value(name, value) that writes and tells the owner nothing
Named_set_calls_silent == <<E("write")>>

\* MetadataController.set_value and VariableController.set_value: the
\* calls they make
Named_set_calls == <<E("write")>> \o mark_dirty

\* MetadataController.set_value
Metadata_set_value(name, value) ==
    /\ kind = "MetadataController"
    /\ data' = [data EXCEPT !.name = name, !.value = value]
    /\ log' = Named_set_calls
    /\ call' = [op |-> "metadata_set_value", arg |-> <<name, value>>,
                pre |-> data]
    /\ UNCHANGED <<kind, chain, defaults, resolved, cached>>

\* VariableController.set_value: a string value becomes a list of one
Variable_set_value(name, value) ==
    /\ kind = "VariableController"
    /\ data' = [data EXCEPT !.name = name,
                            !.value = IF value.basestring THEN <<value.value>>
                                      ELSE value.value]
    /\ log' = Named_set_calls
    /\ call' = [op |-> "variable_set_value", arg |-> <<name, value>>,
                pre |-> data]
    /\ UNCHANGED <<kind, chain, defaults, resolved, cached>>

\* FixtureController.replace_keyword
Fixture_replace_keyword(d, new_name) == [d EXCEPT !.name = Some(new_name)]

\* TemplateController.replace_keyword: the record it leaves
Template_replace_keyword(d, new_name) == [d EXCEPT !.value = Some(new_name)]

\* a replace_keyword that also notifies the owner of changed steps
Template_replace_keyword_calls_notifying ==
    <<E("write")>> \o mark_dirty \o <<E("notify_steps_changed")>>

\* TemplateController.replace_keyword: the calls it makes
Template_replace_keyword_calls == <<E("write")>> \o mark_dirty

\* replace_keyword of the two classes that define it
replace_keyword(new_name) ==
    /\ kind \in {"FixtureController", "TemplateController"}
    /\ IF kind = "FixtureController"
          THEN /\ data' = Fixture_replace_keyword(data, new_name)
               /\ log' = <<E("write")>> \o mark_dirty
          ELSE /\ data' = Template_replace_keyword(data, new_name)
               /\ log' = Template_replace_keyword_calls
    /\ call' = [op |-> "replace_keyword", arg |-> <<new_name>>, pre |-> data]
    /\ UNCHANGED <<kind, chain, defaults, resolved, cached>>

\* _SettingController.notify_value_changed
notify_value_changed ==
    /\ kind \in ChangeDetecting
    /\ log' = <<E("notify_settings_changed")>>
    /\ call' = [op |-> "notify_value_changed", arg |-> <<>>, pre |-> data]
    /\ UNCHANGED <<kind, data, chain, defaults, resolved, cached>>

\* an index taken after the name was appended
add_index_after_append(value) == Len(value) + 1

\* TagsController.add: the index handed to tag.set_index
add_index(value) == Len(value)

\* TagsController.add: the tag's index is set to the length of the list,
\* its name appended; arg records the name and the index the tag got
add(name) ==
    /\ kind \in TagKinds
    /\ LET value == IF IsNone(data.value) THEN <<>> ELSE Val(data.value)
       IN  /\ Len(value) < MaxTags
           /\ data' = [data EXCEPT !.value = Some(Append(value, name))]
           /\ call' = [op |-> "add", arg |-> <<name, add_index(value)>>,
                       pre |-> data]
    /\ log' = <<>>
    /\ UNCHANGED <<kind, chain, defaults, resolved, cached>>

----------------------------------------------------------------------------
\* Operations of the import controllers.

\* an import_loaded_or_modified without the is_resource test
import_loaded_or_modified_always(k, name) ==
    <<E("notify_imports_modified"), EA("resource_import_modified", name)>>

\* _ImportController.import_loaded_or_modified, name the record's name
import_loaded_or_modified(k, name) ==
    IF ~is_resource(k) THEN <<E("notify_imports_modified")>>
    ELSE <<E("notify_imports_modified"), EA("resource_import_modified", name)>>

\* _ImportController.set_value: the record it leaves
Import_set_record(d, name, args, alias) ==
    [d EXCEPT !.name = name,
              !.args = IF IsNone(args) THEN <<>> ELSE split_value(Val(args)),
              !.alias = alias]

\* _ImportController.set_value: the calls it makes, in order
Import_set_calls(k, name) ==
    <<E("write")>> \o mark_dirty \o <<EA("publish_edited", name)>>
        \o import_loaded_or_modified(k, name)

\* _ImportController.set_value(name, args=None, alias='')
Import_set_value(name, args, alias) ==
    /\ kind \in ImportKinds
    /\ data' = Import_set_record(data, name, args, alias)
    /\ log' = Import_set_calls(kind, name)
    /\ call' = [op |-> "import_set_value", arg |-> <<name, args, alias>>,
                pre |-> data]
    /\ UNCHANGED <<kind, chain, defaults, resolved, cached>>

\* ResourceImportController.get_imported_controller: found is what the
\* owner's factory returns when asked; arg records the value returned
Resource_get_imported_controller(found) ==
    /\ kind = "ResourceImportController"
    /\ IF ~resolved
          THEN /\ cached' = found
               /\ resolved' = TRUE
               /\ log' = <<EA("find_with_import", data.name)>>
          ELSE /\ UNCHANGED <<cached, resolved>>
               /\ log' = <<>>
    /\ call' = [op |-> "get_imported_controller", arg |-> <<cached'>>,
                pre |-> data]
    /\ UNCHANGED <<kind, data, chain, defaults>>

\* _ImportController.get_imported_controller (LibraryImportController)
Library_get_imported_controller ==
    /\ kind = "LibraryImportController"
    /\ log' = <<>>
    /\ call' = [op |-> "get_imported_controller", arg |-> <<None>>,
                pre |-> data]
    /\ UNCHANGED <<kind, data, chain, defaults, resolved, cached>>

\* an unresolve that leaves the flag as it is
unresolve_keeps ==
    /\ kind = "ResourceImportController"
    /\ log' = <<>>
    /\ call' = [op |-> "unresolve", arg |-> <<>>, pre |-> data]
    /\ UNCHANGED <<kind, data, chain, defaults, cached, resolved>>

\* ResourceImportController.unresolve
unresolve ==
    /\ kind = "ResourceImportController"
    /\ resolved' = FALSE
    /\ log' = <<>>
    /\ call' = [op |-> "unresolve", arg |-> <<>>, pre |-> data]
    /\ UNCHANGED <<kind, data, chain, defaults, cached>>

\* a contains_filename that accepts the file name anywhere in the name
contains_filename_anywhere(name, filename) ==
    \E i \in 1..(Len(name) + 1) :
        /\ i + Len(filename) - 1 <= Len(name)
        /\ SubSeq(name, i, i + Len(filename) - 1) = filename

\* ResourceImportController.contains_filename
contains_filename(name, filename) == endswith(name, filename)

\* ResourceImportController.change_name: the name handed to set_value
changed_name(name, old_name, new_name) ==
    slice_to_minus(name, Len(old_name)) \o new_name

\* ResourceImportController.change_name
change_name(old_name, new_name) ==
    /\ kind = "ResourceImportController"
    /\ IF contains_filename(data.name, old_name)
          THEN LET name == changed_name(data.name, old_name, new_name)
               IN  /\ data' = Import_set_record(data, name, None, <<>>)
                   /\ log' = Import_set_calls(kind, name)
          ELSE /\ data' = data
               /\ log' = <<>>
    /\ call' = [op |-> "change_name", arg |-> <<old_name, new_name>>,
                pre |-> data]
    /\ UNCHANGED <<kind, chain, defaults, resolved, cached>>

\* ResourceImportController.change_format
change_format(format) ==
    /\ kind = "ResourceImportController"
    /\ IF has_format(data.name)
          THEN LET name == replace_extension(data.name, format)
               IN  /\ data' = Import_set_record(data, name, None, <<>>)
                   /\ log' = Import_set_calls(kind, name)
          ELSE /\ data' = data
               /\ log' = <<>>
    /\ call' = [op |-> "change_format", arg |-> <<format>>, pre |-> data]
    /\ UNCHANGED <<kind, chain, defaults, resolved, cached>>

----------------------------------------------------------------------------

Next ==
    \/ \E v \in Values : set_value(v)
    \/ \E c \in {None} \cup {Some(t) : t \in CommentTexts} : set_comment(c)
    \/ clear
    \/ \E c \in OtherComments, v \in OtherTexts, same \in BOOLEAN :
          set_from(c, v, same)
    \/ \E n \in NamedNames, v \in MetadataValues : Metadata_set_value(n, v)
    \/ \E n \in NamedNames, v \in VariableValues : Variable_set_value(n, v)
    \/ \E n \in KeywordNames : replace_keyword(n)
    \/ notify_value_changed
    \/ \E n \in AddNames : add(n)
    \/ \E n \in ImportNames, a \in ImportArgs, al \in Aliases :
          Import_set_value(n, a, al)
    \/ \E f \in Controllers : Resource_get_imported_controller(f)
    \/ Library_get_imported_controller
    \/ unresolve
    \/ \E o \in OldNames, n \in NewNames : change_name(o, n)
    \/ \E f \in Formats : change_format(f)

Spec == Init /\ [][Next]_vars

----------------------------------------------------------------------------
\* The tag controllers inside a hierarchy of force tags and default tags.

InitTags ==
    /\ HierarchyInit
    /\ call = [op |-> "init", arg |-> <<>>, pre |-> data]
    /\ log = <<>>

NextTags ==
    \/ \E v \in StringsUpTo(MaxTagLen) \cup EscapedValues : set_value(v)
    \/ \E n \in AddNames : add(n)
    \/ clear

TagsSpec == InitTags /\ [][NextTags]_vars

----------------------------------------------------------------------------
\* The documentation read for editing, over every stored text.

\* a documentation controller over a record read from a file
DocumentationInit ==
    /\ kind = "DocumentationController"
    /\ \E v \in DocValues : data = WithComment([value |-> v], NoComment)
    /\ chain = <<>>
    /\ defaults = None
    /\ resolved = FALSE
    /\ cached = None

InitUnescape ==
    /\ DocumentationInit
    /\ call = [op |-> "init", arg |-> <<>>, pre |-> data]
    /\ log = <<>>

NextUnescape == get_editable_value

UnescapeSpec == InitUnescape /\ [][NextUnescape]_vars

----------------------------------------------------------------------------
\* The documentation written back from the editor.

InitEscape ==
    /\ kind = "DocumentationController"
    /\ data = WithComment(initial_value(kind), NoComment)
    /\ chain = <<>>
    /\ defaults = None
    /\ resolved = FALSE
    /\ cached = None
    /\ call = [op |-> "init", arg |-> <<>>, pre |-> data]
    /\ log = <<>>

NextEscape == \E text \in EditTexts : set_editable_value(text)

EscapeSpec == InitEscape /\ [][NextEscape]_vars

----------------------------------------------------------------------------
\* Vocabulary of the properties.

Count(ev, l) == Cardinality({i \in 1..Len(l) : l[i].ev = ev})
Has(ev, l) == \E i \in 1..Len(l) : l[i].ev = ev

\* the calls that write to the record, and those that notify
WriteEvents == {"_set", "reset", "write"}
NotifyEvents == {"notify_settings_changed", "notify_steps_changed",
                 "publish_edited", "notify_imports_modified",
                 "resource_import_modified"}

\* the semantic (parsed) value of a value string for a class
Parsed(k, v) ==
    CASE k = "FixtureController" -> Fixture_parse(v)
      [] k = "TimeoutController" -> Timeout_parse(v)
      [] k \in TagKinds \cup ListKinds -> split_value(v)
      [] OTHER -> v

\* the semantic value a record holds, None when it holds none
Stored(k, d) ==
    CASE k = "FixtureController" ->
             IF IsNone(d.name) THEN None ELSE Some(<<Val(d.name), d.args>>)
      [] k = "TimeoutController" ->
             IF IsNone(d.value) THEN None ELSE Some(<<Val(d.value), d.message>>)
      [] k \in ListKinds \cup {"DocumentationController"} -> Some(d.value)
      [] OTHER -> d.value

\* the classes whose _changed parses the value string
ParsingKinds == {"FixtureController", "TimeoutController"} \cup TagKinds
                    \cup ListKinds

----------------------------------------------------------------------------
\* C1: when set_value(v) found the stored value different from v and the
\* next call is set_value(w) with w of the same semantic value as v, the
\* two calls together run _set exactly once and mark the owner dirty
\* exactly once.
C1_SetValueIdempotent ==
    [][(/\ call.op = "set_value"
        /\ call'.op = "set_value"
        /\ Stored(kind, call.pre) # Some(Parsed(kind, call.arg[1]))
        /\ Parsed(kind, call'.arg[1]) = Parsed(kind, call.arg[1]))
       => /\ Count("_set", log) + Count("_set", log') = 1
          /\ Count("mark_dirty", log) + Count("mark_dirty", log') = 1]_vars

\* a timeout holding ('a', '') - only set_value can have stored it - on
\* which set_value('a ') has just been called and has written nothing
C1_Witness ==
    /\ kind = "TimeoutController"
    /\ call.op = "set_value"
    /\ call.arg = << <<"a", " ">> >>
    /\ data.value = Some(<<"a">>)
    /\ call.pre = data
    /\ log = <<>>

\* C2: set_value(v) on a record that already holds the parsed form of v
\* changes no field of the record, not its comment, and makes no call on
\* the owner (no mark_dirty, no notification), whatever blanks v carries.
C2_NoOpOnParsedEquality ==
    [][(/\ call'.op = "set_value"
        /\ kind \in ParsingKinds
        /\ Stored(kind, data) = Some(Parsed(kind, call'.arg[1])))
       => /\ data' = data
          /\ log' = <<>>]_vars

\* arguments ['', ''] on which set_value(' |') has just been called
C2_Witness ==
    /\ kind = "ArgumentsController"
    /\ call.op = "set_value"
    /\ call.arg = << <<" ", "|">> >>
    /\ call.pre.value = << <<>>, <<>> >>
    /\ data = call.pre
    /\ log = <<>>

\* C3: in a call that writes to the record and notifies, the write comes
\* first, then mark_dirty, then the notifications: no notification comes
\* before mark_dirty.
C3_WriteDirtyNotify ==
    (/\ call.op \in {"set_value", "clear", "import_set_value"}
     /\ \E i \in 1..Len(log) : log[i].ev \in NotifyEvents)
    => \A i \in 1..Len(log) :
          log[i].ev \in NotifyEvents
          => \E w, m \in 1..(i - 1) :
                /\ w < m
                /\ log[w].ev \in WriteEvents
                /\ log[m].ev = "mark_dirty"

\* C4: a TagsController yields the owner's forced tags first, then the
\* owner's default tags when its value is None, one Tag of empty name and
\* no index when its value is the empty list, and else its own tags in
\* stored order, the i-th with index i.
C4_EffectiveTags ==
    kind = "TagsController" =>
        LET forced == ForceTags_iter(chain)
            n == Len(forced)
            rest == SubSeq(iter, n + 1, Len(iter))
        IN  /\ Len(iter) >= n
            /\ SubSeq(iter, 1, n) = forced
            /\ \A i \in 1..Len(rest) : rest[i].cls # "ForcedTag"
            /\ IsNone(data.value) =>
                   /\ Len(rest) = (IF IsNone(defaults) THEN 0 ELSE Len(Val(defaults)))
                   /\ \A i \in 1..Len(rest) :
                          /\ rest[i].cls = "DefaultTag"
                          /\ rest[i].name = Val(defaults)[i]
            /\ data.value = Some(<<>>) =>
                   /\ Len(rest) = 1
                   /\ rest[1].cls = "Tag"
                   /\ rest[1].name = <<>>
                   /\ IsNone(rest[1].index)
            /\ (~IsNone(data.value) /\ data.value # Some(<<>>)) =>
                   /\ Len(rest) = Len(Val(data.value))
                   /\ \A i \in 1..Len(rest) :
                          /\ rest[i].cls = "Tag"
                          /\ rest[i].name = Val(data.value)[i]
                          /\ rest[i].index = Some(i - 1)

\* an explicitly empty tag list under an owner with forced and default tags
C4_Witness ==
    /\ kind = "TagsController"
    /\ data.value = Some(<<>>)
    /\ defaults = Some(<<F2>>)
    /\ chain = <<Some(<<F1>>), Some(<<F2, F1>>)>>
    /\ Len(iter) = 4

\* the tags of levels from level i on, outermost first
RECURSIVE LevelsFrom(_, _)
LevelsFrom(levels, i) ==
    IF i > Len(levels) THEN <<>>
    ELSE (IF IsNone(levels[i]) THEN <<>>
          ELSE [j \in 1..Len(Val(levels[i])) |->
                   [name |-> Val(levels[i])[j], index |-> Some(j - 1), ctrl |-> i]])
         \o LevelsFrom(levels, i + 1)

\* C5: a ForceTagsController yields the force tags of every level of its
\* chain, the topmost ancestor's first and its own last, each level's in
\* stored order with the position in the level as index; a level whose
\* force tags are None yields nothing.
C5_ForceTagOrder ==
    kind = "ForceTagsController" =>
        LET want == LevelsFrom(Append(chain, data.value), 1)
        IN  /\ Len(iter) = Len(want)
            /\ \A i \in 1..Len(want) :
                  /\ iter[i].cls = "ForcedTag"
                  /\ iter[i].name = want[i].name
                  /\ iter[i].index = want[i].index
                  /\ iter[i].ctrl = want[i].ctrl

\* levels [f], [g, f], [a] from the root down yield f, g, f, a
C5_Witness ==
    /\ kind = "ForceTagsController"
    /\ chain = <<Some(<<F1>>), Some(<<F2, F1>>)>>
    /\ data.value = Some(<< <<"a">> >>)
    /\ [i \in 1..Len(iter) |-> iter[i].name] = <<F1, F2, F1, <<"a">> >>

\* C6: import set_value(name, args, alias) always writes the three fields,
\* then marks the owner dirty, then publishes the import-changed event, then
\* calls notify_imports_modified; resource_import_modified(new name) follows
\* exactly when the import's type is Resource.
C6_ImportSetValue ==
    call.op = "import_set_value" =>
        /\ data.name = call.arg[1]
        /\ data.args = (IF IsNone(call.arg[2]) THEN <<>>
                        ELSE split_value(Val(call.arg[2])))
        /\ data.alias = call.arg[3]
        /\ Len(log) >= 4
        /\ [i \in 1..4 |-> log[i].ev]
               = <<"write", "mark_dirty", "publish_edited", "notify_imports_modified">>
        /\ IF data.type = "Resource"
              THEN /\ Len(log) = 5
                   /\ log[5] = EA("resource_import_modified", call.arg[1])
              ELSE Len(log) = 4

\* a Resource import set to the values it already had: nothing is skipped
C6_Witness ==
    /\ call.op = "import_set_value"
    /\ data.type = "Resource"
    /\ call.pre = data
    /\ Len(log) = 5

\* C7: get_imported_controller asks the factory exactly when the import is
\* not resolved, and then is resolved; when resolved it returns what was
\* cached (None too) without asking; unresolve() makes it unresolved; no
\* other call (set_value, change_name, change_format) touches the cache.
\* With resolved FALSE at construction, "resolved" is "a resolution has
\* happened since construction or the last unresolve()".
C7_ResolutionCache ==
    [][kind = "ResourceImportController" =>
        /\ call'.op = "get_imported_controller" =>
              /\ Has("find_with_import", log') <=> ~resolved
              /\ resolved => (cached' = cached /\ call'.arg[1] = cached)
              /\ call'.arg[1] = cached'
              /\ resolved'
        /\ call'.op = "unresolve" => ~resolved'
        /\ call'.op \notin {"get_imported_controller", "unresolve"} =>
              /\ resolved' = resolved
              /\ cached' = cached
              /\ ~Has("find_with_import", log')]_vars

\* a renamed import whose cached resolution is None, asked again: the
\* factory is not called
C7_Witness ==
    /\ kind = "ResourceImportController"
    /\ call.op = "get_imported_controller"
    /\ resolved
    /\ IsNone(cached)
    /\ call.arg = <<None>>
    /\ data.name = <<"q">>
    /\ log = <<>>

\* C8: change_name(old, new) on a name that does not end with old changes
\* nothing of the import and makes no call on the owner or the bus; the
\* name changes only when it ended with old.
C8_ChangeNameNoOp ==
    [][call'.op = "change_name" =>
        /\ ~endswith(data.name, call'.arg[1]) => (data' = data /\ log' = <<>>)
        /\ data'.name # data.name => endswith(data.name, call'.arg[1])]_vars

\* change_name('r', new) has just been called on 'r.txt'
C8_Witness ==
    /\ call.op = "change_name"
    /\ call.arg[1] = <<"r">>
    /\ call.pre.name = RTxt
    /\ data = call.pre
    /\ log = <<>>

\* C9 as claimed: replace_keyword, a set_value that changes the value and
\* clear() of a TemplateController each call notify_steps_changed and
\* mark_dirty; a set_value that changes nothing calls neither.
C9_TemplateNotifiesSteps ==
    kind = "TemplateController" =>
        /\ (\/ call.op \in {"replace_keyword", "clear"}
            \/ call.op = "set_value" /\ call.pre.value # Some(call.arg[1]))
           => (Has("notify_steps_changed", log) /\ Has("mark_dirty", log))
        /\ (call.op = "set_value" /\ call.pre.value = Some(call.arg[1]))
           => (~Has("notify_steps_changed", log) /\ ~Has("mark_dirty", log))

\* C9 as amended: a set_value that changes the value and clear() each call
\* notify_steps_changed and mark_dirty, a set_value that changes nothing
\* calls neither, and replace_keyword writes the value and marks the owner
\* dirty without calling notify_steps_changed.
C9_TemplateNotifiesStepsAmended ==
    kind = "TemplateController" =>
        /\ (\/ call.op = "clear"
            \/ call.op = "set_value" /\ call.pre.value # Some(call.arg[1]))
           => (Count("notify_steps_changed", log) = 1 /\ Count("mark_dirty", log) = 1)
        /\ (call.op = "set_value" /\ call.pre.value = Some(call.arg[1]))
           => (~Has("notify_steps_changed", log) /\ ~Has("mark_dirty", log))
        /\ call.op = "replace_keyword"
           => /\ data.value = Some(call.arg[1])
              /\ Count("mark_dirty", log) = 1
              /\ ~Has("notify_steps_changed", log)

\* replace_keyword has just renamed a template that was set
C9_Witness ==
    /\ kind = "TemplateController"
    /\ call.op = "replace_keyword"
    /\ ~IsNone(call.pre.value)
    /\ data.value # call.pre.value
    /\ Has("mark_dirty", log)

C11_ClearResets ==
    call.op = "clear" =>
        /\ data = WithComment(initial_value(kind), None)
        /\ Count("mark_dirty", log) = 1

\* clear() has just run on a fixture that had a name, arguments and a comment
C11_Witness ==
    /\ kind = "FixtureController"
    /\ call.op = "clear"
    /\ call.pre.name = Some(<<"a">>)
    /\ call.pre.args = << <<"a">> >>
    /\ call.pre.comment = Comment(Some(<<"a">>))
    /\ IsNone(data.name) /\ data.args = <<>> /\ IsNone(data.comment)

\* C12: set_comment is a no-op when the comment is unchanged: of two
\* consecutive set_comment(c) calls with the same raw string c the second
\* changes nothing and does not call mark_dirty, and set_comment(None) on a
\* record whose comment is None does not call mark_dirty.
C12_SetCommentNoOp ==
    [][/\ (/\ call.op = "set_comment" /\ call'.op = "set_comment"
           /\ ~IsNone(call.arg[1]) /\ call'.arg = call.arg)
          => (data' = data /\ ~Has("mark_dirty", log'))
       /\ (/\ call'.op = "set_comment" /\ IsNone(call'.arg[1])
           /\ IsNone(data.comment))
          => (data' = data /\ ~Has("mark_dirty", log'))]_vars

\* n blanks
Blanks(n) == [i \in 1..n |-> " "]

\* t is s without its leading and trailing blanks
IsTrimOf(t, s) ==
    /\ t = <<>> \/ (t[1] # " " /\ t[Len(t)] # " ")
    /\ \E i, j \in 0..Len(s) : s = Blanks(i) \o t \o Blanks(j)

\* the two timeout strings of the documentation
TimeoutWithMessage ==
    <<"5", "s", " ", "|", " ", "c", "u", "s", "t", "o", "m", " ", "m", "e", "s", "s", "a", "g", "e">>
TimeoutAlone == <<"5", "s">>

\* C17: set_value(v) on a TimeoutController splits v at its first '|' only:
\* the stored duration is the trimmed text before it (all of v, trimmed,
\* when v has no '|'), the stored message is the trimmed text after it or
\* empty; a call that changes either field writes and marks dirty once;
\* '5s | custom message' parses to ('5s', 'custom message') and '5s' to
\* ('5s', '').
C17_TimeoutParsing ==
    /\ (kind = "TimeoutController" /\ call.op = "set_value") =>
          LET v == call.arg[1]
              pipes == {p \in 1..Len(v) : v[p] = "|"}
          IN  /\ ~IsNone(data.value)
              /\ IF pipes = {}
                    THEN /\ IsTrimOf(Val(data.value), v)
                         /\ data.message = <<>>
                    ELSE \E p \in pipes :
                            /\ \A q \in pipes : p <= q
                            /\ IsTrimOf(Val(data.value), SubSeq(v, 1, p - 1))
                            /\ IsTrimOf(data.message,
                                        SubSeq(v, p + 1, Len(v)))
              /\ (data.value # call.pre.value
                    \/ data.message # call.pre.message)
                 => (Count("_set", log) = 1 /\ Count("mark_dirty", log) = 1)
    /\ Timeout_parse(TimeoutWithMessage)
          = <<<<"5", "s">>, 
             <<"c", "u", "s", "t", "o", "m", " ", "m", "e", "s", "s", "a", "g", "e">>>>
    /\ Timeout_parse(TimeoutAlone) = <<<<"5", "s">>, <<>> >>

\* set_value('|') has just changed only the message of a timeout ' | a'
C17_Witness ==
    /\ kind = "TimeoutController"
    /\ call.op = "set_value"
    /\ call.arg = << <<"|">> >>
    /\ call.pre.value = Some(<<>>)
    /\ call.pre.message = <<"a">>
    /\ data.value = Some(<<>>)
    /\ data.message = <<>>
    /\ Count("mark_dirty", log) = 1

\* C18: whenever change_name(old, new) rewrites the import name (the name
\* ends with old), the new name is the part of the old name before its
\* trailing old, followed by new, for every old, the empty string included
\* (for which the whole name is the part kept).
C18_ChangeNameSuffix ==
    (/\ kind = "ResourceImportController"
     /\ call.op = "change_name"
     /\ endswith(call.pre.name, call.arg[1]))
    => LET name == call.pre.name
           old  == call.arg[1]
       IN  data.name = SubSeq(name, 1, Len(name) - Len(old)) \o call.arg[2]

\* the tags of the controller itself among those it iterates over
LocalTags == SelectSeq(iter, LAMBDA t : t.cls = "Tag")

\* C19: after add(tag) on a TagsController the stored list is the list it
\* had (empty if it was unset) followed by the tag's name, the index the
\* tag was given is the position of its name in the stored list, iteration
\* yields the forced tags and then the local tags, one per stored name, in
\* order and with indices 0..n-1, and no default tag is yielded any more.
C19_AddKeepsIndices ==
    (kind = "TagsController" /\ call.op = "add") =>
        LET old == IF IsNone(call.pre.value) THEN <<>>
                   ELSE Val(call.pre.value)
            name == call.arg[1]
            index == call.arg[2]
        IN  /\ data.value = Some(old \o <<name>>)
            /\ index = Len(old)
            /\ Val(data.value)[index + 1] = name
            /\ Len(LocalTags) = Len(Val(data.value))
            /\ \A i \in 1..Len(LocalTags) :
                  /\ LocalTags[i].name = Val(data.value)[i]
                  /\ LocalTags[i].index = Some(i - 1)
            /\ iter = ForceTags_iter(chain) \o LocalTags
            /\ \A i \in 1..Len(iter) : iter[i].cls # "DefaultTag"

\* the second add in a row on a controller that was unset under an owner
\* with forced and default tags
C19_Witness ==
    /\ kind = "TagsController"
    /\ call.op = "add"
    /\ call.arg = <<<<"|">>, 1>>
    /\ call.pre.value = Some(<< <<"a">> >>)
    /\ data.value = Some(<< <<"a">>, <<"|">> >>)
    /\ defaults = Some(<<F2>>)
    /\ chain # <<>> /\ ForceTags_iter(chain) # <<>>

\* the owner's hierarchy has a forced tag, the owner has a default tag
HasForcedTags == \E i \in 1..Len(chain) : ~IsNone(chain[i]) /\ Val(chain[i]) # <<>>
HasDefaultTags == ~IsNone(defaults) /\ Val(defaults) # <<>>

\* C14: is_set of a TagsController is true when its own value is unset and
\* the owner has forced or default tags, true when a list is stored, the
\* empty list included, and false exactly when the own value is unset and
\* the owner has neither forced nor default tags.
C14_TagsIsSet ==
    kind = "TagsController" =>
        /\ (IsNone(data.value) /\ (HasForcedTags \/ HasDefaultTags))
           => Tags_is_set(iter)
        /\ ~IsNone(data.value) => Tags_is_set(iter)
        /\ ~Tags_is_set(iter)
           <=> (IsNone(data.value) /\ ~HasForcedTags /\ ~HasDefaultTags)

\* set_value('') has just stored the empty list under an owner without
\* forced or default tags: is_set is true by the blank tag alone
C14_Witness ==
    /\ kind = "TagsController"
    /\ call.op = "set_value"
    /\ data.value = Some(<<>>)
    /\ ~HasForcedTags /\ ~HasDefaultTags
    /\ Len(iter) = 1 /\ iter[1].name = <<>>
    /\ Tags_is_set(iter)

\* the classes whose value is a list of cells
ListLike == TagKinds \cup ListKinds \cup {"FixtureController"}

\* C13: after set_value(v) on a Tags, Arguments, ReturnValue or Fixture
\* controller that has no comment, the strings value and display_value
\* split by the separator rule into the tokens v splits into, a literal
\* '|' of a token being rendered as a backslash and a pipe.
C13_ValueRoundTrip ==
    (kind \in ListLike /\ call.op = "set_value" /\ ~comment_set(data.comment))
    => /\ split_value(value_of(kind, data)) = split_value(call.arg[1])
       /\ split_value(display_value) = split_value(call.arg[1])

\* the three ways an escaped newline ends
NewlineEndings == {<<"n">>, <<"r">>, <<"r", "\\", "n">>}

\* the stored text is k backslashes followed by ending, inside letters or not
IsEscapeSequence(stored, before, k, ending, after) ==
    stored = before \o Backslashes(k) \o ending \o after

\* C15: editable_value reads a run of k >= 1 backslashes followed by n, by
\* r or by r-backslash-n as k-1 backslashes and a newline when k is odd,
\* and leaves the whole sequence as it is stored when k is even.
C15_Unescape ==
    call.op = "get_editable_value" =>
        \A k \in 1..MaxDocLen, ending \in NewlineEndings,
           before \in {<<>>, <<"a">>}, after \in {<<>>, <<"a">>} :
            IsEscapeSequence(data.value, before, k, ending, after)
            => call.arg[1] =
                 IF k % 2 = 1
                    THEN before \o Backslashes(k - 1) \o <<NL>> \o after
                    ELSE data.value

\* the text read left to right: a maximal run of k backslashes followed
\* by r-backslash-n, n or r is k-1 backslashes and a newline when k is odd;
\* when k is even the run stays and reading resumes right after it
RECURSIVE ReadEscapes(_)
ReadEscapes(s) ==
    IF s = <<>> THEN <<>>
    ELSE IF Head(s) # "\\" THEN <<Head(s)>> \o ReadEscapes(Tail(s))
    ELSE LET k == leading_backslashes(s)
             rest == SubSeq(s, k + 1, Len(s))
             ends == {e \in NewlineEndings : startswith(rest, e)}
         IN  IF k % 2 = 1 /\ ends # {}
                THEN LET e == CHOOSE e \in ends : \A f \in ends : Len(f) <= Len(e)
                     IN  Backslashes(k - 1) \o <<NL>>
                         \o ReadEscapes(SubSeq(rest, Len(e) + 1, Len(rest)))
                ELSE Backslashes(k) \o ReadEscapes(rest)

\* C15 amended: as C15 for odd k and for even k followed by n or by r; an
\* even run followed by r-backslash-n stays with its r, and the
\* backslash-n that ends it, one backslash before n, is read as a newline.
\* Every stored text reads as ReadEscapes gives it.
C15_UnescapeAmended ==
    call.op = "get_editable_value" =>
        /\ \A k \in 1..MaxDocLen, ending \in NewlineEndings,
              before \in {<<>>, <<"a">>}, after \in {<<>>, <<"a">>} :
               IsEscapeSequence(data.value, before, k, ending, after)
               => call.arg[1] =
                    IF k % 2 = 1
                       THEN before \o Backslashes(k - 1) \o <<NL>> \o after
                    ELSE IF ending = <<"r", "\\", "n">>
                       THEN before \o Backslashes(k) \o <<"r", NL>> \o after
                    ELSE data.value
        /\ call.arg[1] = ReadEscapes(data.value)

\* stored two backslashes, r, backslash, n has just been read as two
\* backslashes, r and a newline
C15_Witness ==
    /\ call.op = "get_editable_value"
    /\ data.value = <<"\\", "\\", "r", "\\", "n">>
    /\ call.arg[1] = <<"\\", "\\", "r", NL>>

\* the text with each newline, CR LF taken as one, written as backslash-n
RECURSIVE WriteNewlines(_)
WriteNewlines(text) ==
    IF text = <<>> THEN <<>>
    ELSE IF startswith(text, <<CR, NL>>)
            THEN escaped_newline \o WriteNewlines(SubSeq(text, 3, Len(text)))
    ELSE IF Head(text) \in {NL, CR}
            THEN escaped_newline \o WriteNewlines(Tail(text))
    ELSE <<Head(text)>> \o WriteNewlines(Tail(text))

\* s holds no newline character
NoNewline(s) == \A i \in 1..Len(s) : s[i] \notin {NL, CR}

\* C16: editable_value = text stores text with every CR LF, LF and CR
\* replaced by backslash-n, a CR LF pair by one; when that result begins,
\* leading blanks ignored, with '#', one backslash is prefixed so that the
\* stored value starts with backslash-hash; the stored value holds no
\* newline character.
C16_WriteBack ==
    call.op = "set_editable_value" =>
        LET escaped == WriteNewlines(call.arg[1])
        IN  /\ NoNewline(data.value)
            /\ IF startswith(lstrip(escaped), <<"#">>)
                  THEN /\ data.value = <<"\\">> \o escaped
                       /\ startswith(data.value, <<"\\", "#">>)
                  ELSE data.value = escaped

\* C16 amended: as C16, but the backslash is prefixed to the whole result,
\* before its leading blanks: the stored value starts with backslash-hash
\* exactly when the result itself begins with '#', and with a backslash
\* and a blank when blanks precede the '#'.
C16_WriteBackAmended ==
    call.op = "set_editable_value" =>
        LET escaped == WriteNewlines(call.arg[1])
        IN  /\ NoNewline(data.value)
            /\ IF startswith(lstrip(escaped), <<"#">>)
                  THEN /\ data.value = <<"\\">> \o escaped
                       /\ startswith(data.value, <<"\\", "#">>)
                          <=> startswith(escaped, <<"#">>)
                       /\ ~startswith(escaped, <<"#">>)
                          => startswith(data.value, <<"\\", " ">>)
                  ELSE data.value = escaped

\* the text blank, hash has just been stored as backslash, blank, hash
C16_Witness ==
    /\ call.op = "set_editable_value"
    /\ call.arg[1] = <<" ", "#">>
    /\ data.value = <<"\\", " ", "#">>
    /\ Count("mark_dirty", log) = 1

\* the calls that may change the record
ChangingOps == {"set_value", "set_comment", "clear", "replace_keyword",
                "set_from", "metadata_set_value", "variable_set_value",
                "import_set_value", "change_name", "change_format"}

\* C20: every set_value, set_comment, clear, replace_keyword, set_from,
\* Metadata or Variable set_value, import set_value, change_name or
\* change_format that leaves the record, value fields or comment,
\* different from what it was before the call has called mark_dirty on
\* the owner in that call.
C20_NoSilentModification ==
    (call.op \in ChangingOps /\ data # call.pre) => Has("mark_dirty", log)

\* set_from has just copied another fixture's name and comment, marking
\* the owner dirty for each
C20_Witness ==
    /\ kind = "FixtureController"
    /\ call.op = "set_from"
    /\ data.name # call.pre.name
    /\ data.comment # call.pre.comment
    /\ data.comment = Comment(Some(<<"a">>))
    /\ Count("mark_dirty", log) = 2

====
